---- MODULE Spec2Model ----
(***************************************************************************)
(* Flask-Admin: the admin blueprint of flask_admin/__init__.py (registry,  *)
(* index/list/edit/add/delete views over a SQLAlchemy session) and the     *)
(* MongoAlchemy datastore of flask_admin/datastore/mongoalchemy.py.        *)
(***************************************************************************)
EXTENDS Integers, Sequences, FiniteSets, TLC

\* ------------------------------------------------------------------ bounds
MaxStudents == 2        \* rows the Student table may hold
MaxCourses == 1         \* rows the Course table may hold
MaxPage == 2            \* largest ?page= parameter requested
MaxValidators == 4      \* longest 'validators' list a field_args entry may reach

VARIABLES
    models,             \* blueprint name -> the `models` argument it was created with
    model_dict,         \* blueprint name -> its model registry (name -> class)
    view_decorator,     \* the view_decorator argument: "dummy" or "login_required"
    list_view_pagination, \* the list_view_pagination argument (page size)
    model_forms,        \* blueprint name -> the model_forms argument
    form_dict,          \* blueprint name -> admin_blueprint.form_dict
    db,                 \* what db_session sees: table name -> (primary key -> row)
    session,            \* the browser session: [user: BOOLEAN]
    req,                \* the last request
    resp,               \* the response to it
    fx,                 \* what serving it did: [queried, committed, flash]
    prev,               \* db as it was when the last request arrived
    model_classes,      \* MongoAlchemyDatastore.model_classes (name -> class)
    ds_model_forms,     \* MongoAlchemyDatastore.model_forms, as given
    ds_form_dict,       \* MongoAlchemyDatastore.form_dict
    store,              \* the Mongo collections: class name -> (mongo_id -> document)
    call,               \* the last datastore call: its arguments and what it returned
    before,             \* store as it was when that call was made
    ma_model,           \* the document class a form is generated for
    field_args,         \* the caller's field_args object (None or a dict)
    generated           \* the last model_fields call: arguments and result

appVars == <<models, model_dict, view_decorator, list_view_pagination,
             model_forms, form_dict, db, session, req, resp, fx, prev>>
storeVars == <<model_classes, ds_model_forms, ds_form_dict, store, call, before>>
formVars == <<ma_model, field_args, generated>>
vars == <<appVars, storeVars, formVars>>

\* ------------------------------------------------- the host application
\* Python objects a `models` module or iterable may hold.  `declarative` is
\* isinstance(v, sa.ext.declarative.DeclarativeMeta).
Student == [cname |-> "Student", declarative |-> TRUE]
Course == [cname |-> "Course", declarative |-> TRUE]
Base == [cname |-> "Base", declarative |-> TRUE]
create_app == [cname |-> "create_app", declarative |-> FALSE]

\* Classes that are mapped to a table (Base itself is not).
Mapped(cls) == cls.cname \in {"Student", "Course"}

StudentKeys == 1..MaxStudents
CourseKeys == 1..MaxCourses

\* Form data a client may submit for a class.
FormData(cls) ==
    IF cls = Student
    THEN [name : {"", "Mike"}]
    ELSE [students : SUBSET StudentKeys]

\* form.validate(): a student's name is required, a course's students must be
\* among the choices the form offers (the students that exist).
ValidIn(d, cls, form) ==
    IF cls = Student
    THEN form.name # ""
    ELSE form.students \subseteq DOMAIN d.Student

Validate(cls, form) == ValidIn(db, cls, form)

\* Student.courses, the backref of Course.students: both read the same
\* association rows.
StudentCourses(d, s) == {c \in DOMAIN d.Course : s \in d.Course[c].students}

\* model(): a fresh, unsaved instance.
NewInstance(cls) ==
    IF cls = Student THEN [name |-> "None"] ELSE [students |-> {}]

\* ------------------------------------------------------------- helpers
Max(S) == CHOOSE x \in S : \A y \in S : y <= x
Min2(a, b) == IF a <= b THEN a ELSE b

\* The keys of a set in ascending order.
SortedKeys(S) ==
    [i \in 1..Cardinality(S) |->
        CHOOSE k \in S : Cardinality({j \in S : j < k}) = i - 1]

\* sorted() over the names the model uses.
NameOrder == <<"Base", "Course", "Model", "Pupil", "Student", "create_app">>
IsMember(x, S) == x \in S
sorted(S) == SelectSeq(NameOrder, LAMBDA n : IsMember(n, S))

Remove(f, k) == [x \in DOMAIN f \ {k} |-> f[x]]
Put(f, k, v) == [x \in DOMAIN f \cup {k} |-> IF x = k THEN v ELSE f[x]]

\* ------------------------------------------------------------ registry
\* A `models` argument is a module ([kind |-> "module", dict |-> name -> object])
\* or an iterable ([kind |-> "iterable", items |-> <<object, ...>>]).
\* Mutant: the module branch keyed by the class name, like the iterable branch.
ModelDict_byClassName(m) ==
    LET items == IF m.kind = "module"
                 THEN {m.dict[k] : k \in DOMAIN m.dict}
                 ELSE {m.items[i] : i \in DOMAIN m.items}
        found == {v \in items : v.declarative /\ v.cname # "Base"}
    IN  [n \in {v.cname : v \in found} |-> CHOOSE v \in found : v.cname = n]

ModelDict(m) ==
    IF m.kind = "module"
    THEN LET ks == {k \in DOMAIN m.dict : m.dict[k].declarative /\ k # "Base"}
         IN  [k \in ks |-> m.dict[k]]
    ELSE LET ix == {i \in DOMAIN m.items :
                        m.items[i].declarative /\ m.items[i].cname # "Base"}
             ns == {m.items[i].cname : i \in ix}
         IN  [n \in ns |-> m.items[Max({i \in ix : m.items[i].cname = n})]]

\* -------------------------------------------------------- form registry
None == [none |-> TRUE]
\* An attribute that was never assigned.
Unset == [unset |-> TRUE]

\* _form_for_model(v, db_session, exclude_pk=exclude_pks): the form generated
\* for a model class.
FormForModel(cls) == [generated |-> TRUE, model |-> cls.cname]

\* Mutant: every entry of model_forms is taken over, registered or not.
FormDict_takes_all(registry, forms) ==
    IF DOMAIN registry = {}
    THEN Unset
    ELSE LET given == IF forms = None THEN [x \in {} |-> 0] ELSE forms
         IN  [k \in DOMAIN registry \cup DOMAIN given |->
                 IF k \in DOMAIN given THEN given[k] ELSE FormForModel(registry[k])]

\* admin_blueprint.form_dict: a generated form per registered model, replaced
\* by the model_forms entry of that name; not assigned for an empty registry.
FormDict(registry, forms) ==
    IF DOMAIN registry = {}
    THEN Unset
    ELSE LET given == IF forms = None THEN [x \in {} |-> 0] ELSE forms
         IN  [k \in DOMAIN registry |->
                 IF k \in DOMAIN given THEN given[k] ELSE FormForModel(registry[k])]

\* admin_blueprint.form_dict[model_name] finds a form (else KeyError, or
\* AttributeError when form_dict was never assigned).
HasForm(bp, model_name) ==
    form_dict[bp] # Unset /\ model_name \in DOMAIN form_dict[bp]

\* --------------------------------------------------------- db_session
NoFx == [queried |-> FALSE, committed |-> FALSE, flash |-> "none"]

\* db_session.query(model).filter_by(pk=model_key).one() finds a row.
Found(cls, model_key) == model_key \in DOMAIN db[cls.cname]

Instance(cls, k) == [id |-> k, data |-> db[cls.cname][k]]

\* db_session.query(model): every instance, in primary-key order.
QueryAll(cls) ==
    LET ks == SortedKeys(DOMAIN db[cls.cname])
    IN  [i \in DOMAIN ks |-> Instance(cls, ks[i])]

\* The key the database gives a new row.
NextKey(cls) == Max(DOMAIN db[cls.cname] \cup {0}) + 1

\* Mutant: the new instance is written over the newest row.
AddInstance_overwrite(cls, row) ==
    [db EXCEPT ![cls.cname] = Put(@, Max(DOMAIN @ \cup {1}), row)]

\* db_session.add(model_instance); db_session.commit() for a new instance.
AddInstance(cls, row) ==
    [db EXCEPT ![cls.cname] = Put(@, NextKey(cls), row)]

\* Mutant: the edited instance is inserted as a new row.
SaveInstance_asNew(cls, model_key, row) ==
    [db EXCEPT ![cls.cname] = Put(@, NextKey(cls), row)]

\* db_session.add(model_instance); db_session.commit() for a loaded instance.
SaveInstance(cls, model_key, row) ==
    [db EXCEPT ![cls.cname] = Put(@, model_key, row)]

\* Mutant: the delete is not restricted to the instance's key.
DeleteInstance_unfiltered(cls, model_key) ==
    [db EXCEPT ![cls.cname] = [x \in {} |-> 0]]

\* db_session.delete(model_instance); db_session.commit(): the row goes, and
\* with a student its rows of the course/student association.
DeleteInstance(cls, model_key) ==
    IF cls = Student
    THEN [db EXCEPT
            !.Student = Remove(@, model_key),
            !.Course = [c \in DOMAIN @ |->
                           [@[c] EXCEPT !.students = @ \ {model_key}]]]
    ELSE [db EXCEPT ![cls.cname] = Remove(@, model_key)]

\* _populate_model_from_form: setattr(model_instance, field.name, field.data)
\* for every field of the form.
PopulateModelFromForm(row, form) ==
    [f \in DOMAIN row |-> IF f \in DOMAIN form THEN form[f] ELSE row[f]]

\* ----------------------------------------------------------- responses
Text(body) == [status |-> 200, kind |-> "text", body |-> body]
Redirect(location) == [status |-> 302, kind |-> "redirect", location |-> location]
RenderTemplate(template, context) ==
    [status |-> 200, kind |-> "template", template |-> template, context |-> context]
\* Mutant: an unregistered model answered with an error status.
CannotAccess_404(model_name) ==
    [status |-> 404, kind |-> "text",
     body |-> [msg |-> "cannot be accessed through this admin page",
               model_name |-> model_name]]

\* An exception that leaves a view.
ServerError(exception) == [status |-> 500, kind |-> "error", exception |-> exception]

CannotAccess(model_name) ==
    Text([msg |-> "cannot be accessed through this admin page",
          model_name |-> model_name])
NotFound(model_name, model_key) ==
    Text([msg |-> "not found", model_name |-> model_name, model_key |-> model_key])
ListUrl(model_name) == [endpoint |-> "list_view", model_name |-> model_name]

Outcome(r, d, f) == [resp |-> r, db |-> d, fx |-> f]

\* ---------------------------------------------------------------- views
\* int(request.args.get('page', '1'))
PageOf(args) == IF "page" \in DOMAIN args THEN args.page ELSE 1

\* Mutant: the page parameter taken as 0-based.
Offset_zeroBased(page, per_page) == page * per_page

\* offset = (page - 1) * per_page
Offset(page, per_page) == (page - 1) * per_page

\* model_instances.limit(per_page).offset(offset).all()
LimitOffset(all, per_page, offset) ==
    SubSeq(all, offset + 1, Min2(offset + per_page, Len(all)))

\* Pagination(query, page, per_page, total, items)
Pagination(page, per_page, total, items) ==
    [page |-> page, per_page |-> per_page, total |-> total, items |-> items]

AdminModels(bp) == sorted(DOMAIN model_dict[bp])

index_body(bp) ==
    Outcome(RenderTemplate("admin/index.html", [admin_models |-> AdminModels(bp)]),
            db, NoFx)

list_view_body(bp, model_name, args) ==
    IF model_name \notin DOMAIN model_dict[bp]
    THEN Outcome(CannotAccess(model_name), db, NoFx)
    ELSE LET model == model_dict[bp][model_name]
             model_instances == QueryAll(model)
             per_page == list_view_pagination
             page == PageOf(args)
             offset == Offset(page, per_page)
             items == LimitOffset(model_instances, per_page, offset)
             pagination == Pagination(page, per_page, Len(model_instances), items)
         IN  Outcome(RenderTemplate("admin/list.html",
                        [admin_models |-> AdminModels(bp),
                         model_instances |-> pagination.items,
                         model_name |-> model_name,
                         pagination |-> pagination]),
                     db, [NoFx EXCEPT !.queried = TRUE])

\* Mutant: the instance is populated and committed before validation decides.
edit_post_saves_invalid(bp, model_name, model_key, form) ==
    LET model == model_dict[bp][model_name]
        model_instance == Instance(model, model_key)
        saved == SaveInstance(model, model_key,
                     PopulateModelFromForm(model_instance.data, form))
    IN  IF Validate(model, form)
        THEN Outcome(Redirect(ListUrl(model_name)), saved,
                     [queried |-> TRUE, committed |-> TRUE, flash |-> "success"])
        ELSE Outcome(RenderTemplate("admin/edit.html",
                        [admin_models |-> AdminModels(bp),
                         model_instance |-> model_instance,
                         model_name |-> model_name,
                         form |-> form]),
                     saved, [queried |-> TRUE, committed |-> TRUE, flash |-> "error"])

\* edit, on POST: form = model_form(request.form, obj=model_instance)
edit_post(bp, model_name, model_key, form) ==
    LET model == model_dict[bp][model_name]
        model_instance == Instance(model, model_key)
    IN  IF Validate(model, form)
        THEN Outcome(Redirect(ListUrl(model_name)),
                     SaveInstance(model, model_key,
                         PopulateModelFromForm(model_instance.data, form)),
                     [queried |-> TRUE, committed |-> TRUE, flash |-> "success"])
        ELSE Outcome(RenderTemplate("admin/edit.html",
                        [admin_models |-> AdminModels(bp),
                         model_instance |-> model_instance,
                         model_name |-> model_name,
                         form |-> form]),
                     db, [queried |-> TRUE, committed |-> FALSE, flash |-> "error"])

edit_body(bp, model_name, model_key, method, form) ==
    IF model_name \notin DOMAIN model_dict[bp]
    THEN Outcome(CannotAccess(model_name), db, NoFx)
    ELSE LET model == model_dict[bp][model_name]
         IN  IF ~HasForm(bp, model_name)
             THEN Outcome(ServerError("KeyError"), db, NoFx)
             ELSE IF ~Found(model, model_key)
             THEN Outcome(NotFound(model_name, model_key), db,
                          [NoFx EXCEPT !.queried = TRUE])
             ELSE IF method = "GET"
             THEN Outcome(RenderTemplate("admin/edit.html",
                             [admin_models |-> AdminModels(bp),
                              model_instance |-> Instance(model, model_key),
                              model_name |-> model_name,
                              form |-> Instance(model, model_key).data]),
                          db, [NoFx EXCEPT !.queried = TRUE])
             ELSE edit_post(bp, model_name, model_key, form)

\* add, on POST: form = model_form(request.form)
add_post(bp, model_name, form) ==
    LET model == model_dict[bp][model_name]
        model_instance == NewInstance(model)
    IN  IF Validate(model, form)
        THEN Outcome(Redirect(ListUrl(model_name)),
                     AddInstance(model, PopulateModelFromForm(model_instance, form)),
                     [queried |-> FALSE, committed |-> TRUE, flash |-> "success"])
        ELSE Outcome(RenderTemplate("admin/add.html",
                        [admin_models |-> AdminModels(bp),
                         model_name |-> model_name,
                         form |-> form]),
                     db, [NoFx EXCEPT !.flash = "error"])

add_body(bp, model_name, method, form) ==
    IF model_name \notin DOMAIN model_dict[bp]
    THEN Outcome(CannotAccess(model_name), db, NoFx)
    ELSE IF ~HasForm(bp, model_name)
    THEN Outcome(ServerError("KeyError"), db, NoFx)
    ELSE IF method = "GET"
    THEN Outcome(RenderTemplate("admin/add.html",
                    [admin_models |-> AdminModels(bp),
                     model_name |-> model_name,
                     form |-> NewInstance(model_dict[bp][model_name])]),
                 db, NoFx)
    ELSE add_post(bp, model_name, form)

\* Mutant: no lookup before the delete, so a missing key is not noticed.
delete_body_no_lookup(bp, model_name, model_key) ==
    IF model_name \notin DOMAIN model_dict[bp]
    THEN Outcome(CannotAccess(model_name), db, NoFx)
    ELSE Outcome(Redirect(ListUrl(model_name)),
                 DeleteInstance(model_dict[bp][model_name], model_key),
                 [queried |-> TRUE, committed |-> TRUE, flash |-> "success"])

delete_body(bp, model_name, model_key) ==
    IF model_name \notin DOMAIN model_dict[bp]
    THEN Outcome(CannotAccess(model_name), db, NoFx)
    ELSE LET model == model_dict[bp][model_name]
         IN  IF ~Found(model, model_key)
             THEN Outcome(NotFound(model_name, model_key), db,
                          [NoFx EXCEPT !.queried = TRUE])
             ELSE Outcome(Redirect(ListUrl(model_name)),
                          DeleteInstance(model, model_key),
                          [queried |-> TRUE, committed |-> TRUE,
                           flash |-> "success"])

\* ------------------------------------------------------- view_decorator
\* The URL a request asked for.
Url(r) == [bp |-> r.bp, view |-> r.view, model_name |-> r.model_name,
           model_key |-> r.model_key, args |-> r.args]

\* login_required: without a user in the session, redirect to the login
\* page with next=<the requested URL>.
login_required(r, out) ==
    IF ~session.user
    THEN Outcome(Redirect([endpoint |-> "login", next |-> Url(r)]), db, NoFx)
    ELSE out

\* @view_decorator: the decorator given, or the dummy one that calls the view.
Decorated(r, out) ==
    IF view_decorator = "login_required" THEN login_required(r, out) ELSE out

\* The five view functions as registered with add_url_rule.
index(r) == Decorated(r, index_body(r.bp))
list_view(r) == Decorated(r, list_view_body(r.bp, r.model_name, r.args))
edit(r) == Decorated(r, edit_body(r.bp, r.model_name, r.model_key, r.method, r.form))
add(r) == Decorated(r, add_body(r.bp, r.model_name, r.method, r.form))
\* Mutant: the delete view registered without the decorator.
delete_undecorated(r) == delete_body(r.bp, r.model_name, r.model_key)

delete(r) == Decorated(r, delete_body(r.bp, r.model_name, r.model_key))

\* ------------------------------------------------------------- requests
NoForm == [x \in {} |-> 0]
NoArgs == [x \in {} |-> 0]
RequestNames == {"Student", "Course", "Pupil"}
RequestKeys == StudentKeys \cup CourseKeys

Request(bp, view, method, model_name, model_key, args, form) ==
    [bp |-> bp, view |-> view, method |-> method, model_name |-> model_name,
     model_key |-> model_key, args |-> args, form |-> form]

\* The forms a client may POST to a model's add or edit URL.
FormsFor(bp, model_name, method) ==
    IF method = "POST" /\ model_name \in DOMAIN model_dict[bp]
    THEN FormData(model_dict[bp][model_name])
    ELSE {NoForm}

WithinBounds(d) ==
    /\ DOMAIN d.Student \subseteq StudentKeys
    /\ DOMAIN d.Course \subseteq CourseKeys

Serve(r, out) ==
    /\ WithinBounds(out.db)
    /\ req' = r
    /\ resp' = out.resp
    /\ db' = out.db
    /\ fx' = out.fx
    /\ prev' = db
    /\ UNCHANGED <<models, model_dict, view_decorator, list_view_pagination,
                   model_forms, form_dict, session>>
    /\ UNCHANGED <<storeVars, formVars>>

Index ==
    \E bp \in DOMAIN model_dict :
        LET r == Request(bp, "index", "GET", "", 0, NoArgs, NoForm)
        IN  Serve(r, index(r))

ListView ==
    \E bp \in DOMAIN model_dict, model_name \in RequestNames,
       args \in {NoArgs} \cup [page : 1..MaxPage] :
        LET r == Request(bp, "list_view", "GET", model_name, 0, args, NoForm)
        IN  Serve(r, list_view(r))

EditRequest(methods) ==
    \E bp \in DOMAIN model_dict, model_name \in RequestNames,
       model_key \in RequestKeys, method \in methods :
        \E form \in FormsFor(bp, model_name, method) :
            LET r == Request(bp, "edit", method, model_name, model_key, NoArgs, form)
            IN  Serve(r, edit(r))

AddRequest(methods) ==
    \E bp \in DOMAIN model_dict, model_name \in RequestNames,
       method \in methods :
        \E form \in FormsFor(bp, model_name, method) :
            LET r == Request(bp, "add", method, model_name, 0, NoArgs, form)
            IN  Serve(r, add(r))

\* The methods the URL rules of edit and add accept.
Edit == EditRequest({"GET", "POST"})
Add == AddRequest({"GET", "POST"})

Delete ==
    \E bp \in DOMAIN model_dict, model_name \in RequestNames,
       model_key \in RequestKeys :
        LET r == Request(bp, "delete", "GET", model_name, model_key, NoArgs, NoForm)
        IN  Serve(r, delete(r))

\* ---------------------------------------------------------- the login app
\* POST /login/ with the right credentials puts the user in the session.
Login ==
    \E ok \in BOOLEAN :
        /\ session' = IF ok THEN [user |-> TRUE] ELSE session
        /\ req' = Request("", "login", "POST", "", 0, NoArgs, [ok |-> ok])
        /\ resp' = IF ok THEN Redirect([endpoint |-> "index"])
                         ELSE RenderTemplate("login.html", [error |-> TRUE])
        /\ fx' = NoFx
        /\ prev' = db
        /\ UNCHANGED <<models, model_dict, view_decorator, list_view_pagination,
                       model_forms, form_dict, db>>
        /\ UNCHANGED <<storeVars, formVars>>

\* GET /logout/ removes the user from the session.
Logout ==
    /\ session' = [user |-> FALSE]
    /\ req' = Request("", "logout", "GET", "", 0, NoArgs, NoForm)
    /\ resp' = Redirect([endpoint |-> "home"])
    /\ fx' = NoFx
    /\ prev' = db
    /\ UNCHANGED <<models, model_dict, view_decorator, list_view_pagination,
                   model_forms, form_dict, db>>
    /\ UNCHANGED <<storeVars, formVars>>

\* ------------------------------------------------ MongoAlchemyDatastore
\* Objects a `models` module or iterable may hold; `document` is
\* issubclass(v, Document).
StudentDoc == [cname |-> "Student", document |-> TRUE]
CourseDoc == [cname |-> "Course", document |-> TRUE]

\* Keys as they arrive from the URL: strings ObjectId() accepts, and one it
\* rejects with InvalidId.
WellFormedIds == {"4e0000000000000000000001", "4e0000000000000000000002"}
MalformedIds == {"xyz"}
IsValidId(model_key) == model_key \in WellFormedIds

DocNames == {"Stewart", "Mike"}

\* MongoAlchemyDatastore.__init__: the registry of document classes.
ModelClasses(m) ==
    IF m.kind = "module"
    THEN LET ks == {k \in DOMAIN m.dict : m.dict[k].document}
         IN  [k \in ks |-> m.dict[k]]
    ELSE LET ix == {i \in DOMAIN m.items : m.items[i].document}
             ns == {m.items[i].cname : i \in ix}
         IN  [n \in ns |-> m.items[Max({i \in ix : m.items[i].cname = n})]]

\* get_model_class: self.model_classes.get(model_name, None)
get_model_class(model_name) ==
    IF model_name \in DOMAIN model_classes THEN model_classes[model_name] ELSE None

\* _form_for_model(document_class, db_session): model_form(document_class)
DocFormForModel(cls) == [generated |-> TRUE, model |-> cls.cname]

\* MongoAlchemyDatastore.__init__: self.form_dict
DatastoreFormDict(classes, forms) ==
    IF DOMAIN classes = {}
    THEN Unset
    ELSE LET given == IF forms = None THEN [x \in {} |-> 0] ELSE forms
         IN  [k \in DOMAIN classes |->
                 IF k \in DOMAIN given THEN given[k] ELSE DocFormForModel(classes[k])]

Returned(value) == [raised |-> FALSE, value |-> value]
Raised(exception) == [raised |-> TRUE, value |-> exception]

\* get_model_form: self.form_dict.get(model_name, None)
get_model_form(model_name) ==
    IF ds_form_dict = Unset
    THEN Raised("AttributeError")
    ELSE IF model_name \in DOMAIN ds_form_dict
    THEN Returned(ds_form_dict[model_name])
    ELSE Returned(None)

\* remove_query(model_class).filter(mongo_id == model_key).set_safe(True).execute()
RemoveQuery(model_class, model_key) ==
    [store EXCEPT ![model_class.cname] = Remove(@, model_key)]

\* delete_model_instance: [result, store]
delete_model_instance(model_name, model_key) ==
    LET model_class == get_model_class(model_name)
    IN  IF model_class = None
        THEN [result |-> Raised("AttributeError"), store |-> store]
        ELSE IF ~IsValidId(model_key)
        THEN [result |-> Returned(FALSE), store |-> store]
        ELSE [result |-> Returned(TRUE),
              store |-> RemoveQuery(model_class, model_key)]

\* save_model: model_instance.commit(self.db_session.db) writes the document
\* under its mongo_id.
save_model(model_instance) ==
    [result |-> Returned(None),
     store |-> [store EXCEPT ![model_instance.cls.cname] =
                    Put(@, model_instance.mongo_id, model_instance.data)]]

\* query(model_class).filter(mongo_id == model_key).one(): the one document
\* that matches; one() raises BadResultException unless exactly one does.
QueryOne(model_class, model_key) ==
    IF model_key \in DOMAIN store[model_class.cname]
    THEN Returned([cls |-> model_class, mongo_id |-> model_key,
                   data |-> store[model_class.cname][model_key]])
    ELSE Raised("BadResultException")

\* find_model_instance: [result, store]
find_model_instance(model_name, model_key) ==
    LET model_class == get_model_class(model_name)
    IN  IF model_class = None
        THEN [result |-> Raised("AttributeError"), store |-> store]
        ELSE IF ~IsValidId(model_key)
        THEN [result |-> Raised("InvalidId"), store |-> store]
        ELSE [result |-> QueryOne(model_class, model_key), store |-> store]

\* A form as update_from_form iterates it: field name -> field.data.  A form
\* generated for a document has a mongo_id field; a client can post any value
\* for it.
DocForms ==
    [name : DocNames] \cup [name : DocNames, mongo_id : WellFormedIds]
        \cup [name : DocNames, nick : DocNames]

\* Model instances as update_from_form sees them: attribute name -> value.
DocInstances == [mongo_id : WellFormedIds, name : DocNames]

\* Mutant: every field of the form is assigned, the key too.
update_from_form_takes_key(model_instance, form) ==
    [a \in DOMAIN model_instance \cup DOMAIN form |->
        IF a \in DOMAIN form THEN form[a] ELSE model_instance[a]]

\* update_from_form: setattr(model_instance, field.name, field.data) for every
\* field but mongo_id; returns the instance.
update_from_form(model_instance, form) ==
    LET assigned == DOMAIN form \ {"mongo_id"}
    IN  [a \in DOMAIN model_instance \cup assigned |->
            IF a \in assigned THEN form[a] ELSE model_instance[a]]

Called(name, args, out) ==
    /\ call' = [name |-> name, args |-> args, result |-> out.result]
    /\ store' = out.store
    /\ before' = store
    /\ UNCHANGED <<model_classes, ds_model_forms, ds_form_dict, appVars, formVars>>

DeleteModelInstance ==
    \E model_name \in RequestNames, model_key \in WellFormedIds \cup MalformedIds :
        Called("delete_model_instance",
               [model_name |-> model_name, model_key |-> model_key],
               delete_model_instance(model_name, model_key))

GetModelForm ==
    \E model_name \in RequestNames \cup {"Teacher"} :
        Called("get_model_form", [model_name |-> model_name],
               [result |-> get_model_form(model_name), store |-> store])

FindModelInstance ==
    \E model_name \in RequestNames, model_key \in WellFormedIds \cup MalformedIds :
        Called("find_model_instance",
               [model_name |-> model_name, model_key |-> model_key],
               find_model_instance(model_name, model_key))

UpdateFromForm ==
    \E model_instance \in DocInstances, form \in DocForms :
        Called("update_from_form",
               [model_instance |-> model_instance, form |-> form],
               [result |-> Returned(update_from_form(model_instance, form)),
                store |-> store])

SaveModel ==
    \E model_name \in DOMAIN model_classes, mongo_id \in WellFormedIds,
       name \in DocNames :
        LET model_instance == [cls |-> model_classes[model_name],
                               mongo_id |-> mongo_id, data |-> [name |-> name]]
        IN  Called("save_model", model_instance, save_model(model_instance))

\* ------------------------------------------------ form generation
\* An optional integer (None or an int) is <<>> or <<n>>; Python's truth
\* value of it: None and 0 are false.
Truthy(x) == x # <<>> /\ x[1] # 0

\* wtforms validators, as constructed.
Validator(v, min, max) == [v |-> v, min |-> min, max |-> max]
OptionalV == Validator("Optional", <<>>, <<>>)
RequiredV == Validator("Required", <<>>, <<>>)
LengthV(min, max) == Validator("Length", min, max)

\* A MongoAlchemy field class: its __module__ (dotted, as components) and
\* __name__.
FieldType(module, name) == [module |-> module, name |-> name]
MAFields == <<"mongoalchemy", "fields">>
ObjectIdField == FieldType(MAFields, "ObjectIdField")
StringField == FieldType(MAFields, "StringField")
IntField == FieldType(MAFields, "IntField")
\* A StringField subclass of the same name declared by the application.
AppStringField == FieldType(<<"myapp", "fields">>, "StringField")

UNSET == "UNSET"
MAField(type, required, min, max) ==
    [type |-> type, required |-> required, min |-> min, max |-> max,
     default |-> UNSET]

\* ModelConverter(): the dispatch table collected from the @converts methods.
Converters ==
    (<<"ObjectIdField">> :> "conv_ObjectId") @@ (<<"StringField">> :> "conv_String")

\* '%s.%s' % (__module__, __name__), with a leading 'mongoalchemy.fields.'
\* cut off.
TypeString(type) ==
    LET full == type.module \o <<type.name>>
    IN  IF Len(full) >= 2 /\ SubSeq(full, 1, 2) = MAFields
        THEN SubSeq(full, 3, Len(full))
        ELSE full

\* The converter found for a field type: by type string, else by __name__.
ConverterFor(type) ==
    IF TypeString(type) \in DOMAIN Converters
    THEN Converters[TypeString(type)]
    ELSE IF <<type.name>> \in DOMAIN Converters
    THEN Converters[<<type.name>>]
    ELSE "none"

\* if not ma_field.required: kwargs['validators'].append(Optional())
AppendOptional(ma_field, validators) ==
    IF ~ma_field.required THEN Append(validators, OptionalV) ELSE validators

\* conv_String: if ma_field.min or ma_field.max: append Length(min, max)
AppendLength(ma_field, validators) ==
    IF Truthy(ma_field.min) \/ Truthy(ma_field.max)
    THEN Append(validators, LengthV(ma_field.min, ma_field.max))
    ELSE validators

\* ModelConverterBase.convert(model, ma_field, field_args), where field_args
\* is the caller's entry for this field (None, or a dict of keyword
\* arguments).  kwargs.update(field_args) puts the caller's own 'validators'
\* list into kwargs, so the appends that follow are made to that list: the
\* result carries the form field (None when no converter is found) and the
\* caller's entry as it is after the call.
convert(ma_field, entry) ==
    LET default == IF ma_field.default = UNSET THEN "None" ELSE ma_field.default
        fresh == [k \in {"validators", "filters", "default"} |->
                     IF k = "default" THEN default ELSE <<>>]
        updated == entry # None /\ DOMAIN entry # {}
        kwargs == IF updated
                  THEN [k \in DOMAIN fresh \cup DOMAIN entry |->
                           IF k \in DOMAIN entry THEN entry[k] ELSE fresh[k]]
                  ELSE fresh
        shared == updated /\ "validators" \in DOMAIN entry
        converter == ConverterFor(ma_field.type)
        optional == AppendOptional(ma_field, kwargs["validators"])
        validators == IF converter = "conv_String"
                      THEN AppendLength(ma_field, optional)
                      ELSE optional
        final == [kwargs EXCEPT !["validators"] = validators]
        wtfield == IF converter = "none"
                   THEN None
                   ELSE [field |-> "TextField",
                         widget |-> IF converter = "conv_ObjectId"
                                    THEN "DisabledTextInput" ELSE "TextInput",
                         kwargs |-> final]
    IN  [wtfield |-> wtfield,
         entry |-> IF shared
                   THEN [entry EXCEPT !["validators"] = validators]
                   ELSE entry]

\* An iterable of field names, as passed for only / exclude.
Names(S) == [names |-> S]

\* The fields model_fields visits: `if only: ... elif exclude: ...`
Selected(model, only, exclude) ==
    IF only # None /\ only.names # {}
    THEN DOMAIN model.fields \cap only.names
    ELSE IF exclude # None /\ exclude.names # {}
    THEN DOMAIN model.fields \ exclude.names
    ELSE DOMAIN model.fields

\* model_fields(model, only, exclude, field_args): the field dict returned (or
\* the exception raised) and the caller's field_args object after the call.
model_fields(model, only, exclude, args) ==
    IF ~model.document
    THEN [result |-> Raised("TypeError"), field_args |-> args]
    ELSE LET names == Selected(model, only, exclude)
             given == IF args = None THEN {} ELSE DOMAIN args
             conv(n) == convert(model.fields[n],
                                IF n \in given THEN args[n] ELSE None)
             field_dict == [n \in {m \in names : conv(m).wtfield # None} |->
                               conv(n).wtfield]
         IN  [result |-> Returned(field_dict),
              field_args |-> IF args = None
                             THEN None
                             ELSE [n \in given |->
                                      IF n \in names THEN conv(n).entry
                                      ELSE args[n]]]

\* The longest 'validators' list among the caller's field_args entries.
LongestValidators(args) ==
    IF args = None
    THEN 0
    ELSE Max({0} \cup {Len(args[n]["validators"]) :
                          n \in {m \in DOMAIN args : "validators" \in DOMAIN args[m]}})

OnlyInputs == {None, Names({}), Names({"name"}), Names({"name", "age", "nick"})}
ExcludeInputs == {None, Names({}), Names({"mongo_id"}), Names({"name"})}

NoGenerated == [called |-> FALSE]

\* The application generates the fields of its document class with the
\* field_args object it holds.
ModelFields ==
    /\ LongestValidators(field_args) < MaxValidators
    /\ \E only \in OnlyInputs, exclude \in ExcludeInputs :
           LET out == model_fields(ma_model, only, exclude, field_args)
           IN  /\ generated' = [called |-> TRUE, only |-> only, exclude |-> exclude,
                                field_args |-> field_args, result |-> out.result]
               /\ field_args' = out.field_args
    /\ UNCHANGED <<ma_model, appVars, storeVars>>

\* Document classes: a key, a string field with any declaration of required
\* and of minimum and maximum length (the minimum not above the maximum), a
\* field of a type without converter, and a string field of an
\* application-defined type.
LengthInputs ==
    {l \in {<<>>, <<0>>, <<1>>} \X {<<>>, <<0>>, <<2>>} :
        l[1] = <<>> \/ l[2] = <<>> \/ l[1][1] <= l[2][1]}
DocumentInputs ==
    {[cname |-> "Student", document |-> d,
      fields |-> [mongo_id |-> MAField(ObjectIdField, FALSE, <<>>, <<>>),
                  name |-> MAField(StringField, r, l[1], l[2]),
                  age |-> MAField(IntField, ar, <<>>, <<>>),
                  nick |-> MAField(AppStringField, TRUE, <<>>, <<2>>)]] :
        d \in BOOLEAN, r \in BOOLEAN, ar \in BOOLEAN, l \in LengthInputs}

NoKwargs == [x \in {} |-> 0]
FieldArgsInputs ==
    {None,
     NoKwargs,
     [name |-> NoKwargs],
     [name |-> [label |-> "Name"]],
     [name |-> [validators |-> <<RequiredV>>]],
     [age |-> [validators |-> <<>>]],
     [name |-> [validators |-> <<>>, label |-> "Name"],
      mongo_id |-> [label |-> "Id"]]}

InitNoFormCall ==
    /\ ma_model = [cname |-> "Student", document |-> TRUE,
                   fields |-> [mongo_id |-> MAField(ObjectIdField, FALSE, <<>>, <<>>)]]
    /\ field_args = None
    /\ generated = NoGenerated

\* ------------------------------------------------------- specifications
DefaultPagination == 25
PageSizes == {1, 2}

SimpleModule ==
    [kind |-> "module",
     dict |-> [Base |-> Base, Student |-> Student, Course |-> Course,
               create_app |-> create_app]]

\* Other `models` arguments: iterables, a module that binds a model under
\* another name, a module whose declarative base is not called Base, and an
\* iterable without any model.
ModelsInputs ==
    {SimpleModule,
     [kind |-> "iterable", items |-> <<Student>>],
     [kind |-> "iterable", items |-> <<Course, Base, create_app>>],
     [kind |-> "iterable", items |-> <<Student, Course, Student>>],
     [kind |-> "module", dict |-> [Base |-> Base, Pupil |-> Student]],
     [kind |-> "module", dict |-> [Model |-> Base, Student |-> Student]],
     [kind |-> "iterable", items |-> <<create_app, Base>>]}

\* create_admin_blueprint generates a form for every registered class, which
\* needs the class to be mapped: with any other registry it raises and there
\* is no blueprint.
Constructs(m) == \A n \in DOMAIN ModelDict(m) : Mapped(ModelDict(m)[n])

InitDb ==
    [Student |-> (1 :> [name |-> "Stewart"]),
     Course |-> (1 :> [students |-> {}])]

NoRequest == Request("", "none", "GET", "", 0, NoArgs, NoForm)
NoCall == [name |-> "none", args |-> <<>>, result |-> Returned(None)]

DocModule ==
    [kind |-> "module", dict |-> [Student |-> StudentDoc, Course |-> CourseDoc]]

\* Other `models` arguments of the datastore.
DocInputs ==
    {DocModule,
     [kind |-> "iterable", items |-> <<StudentDoc>>],
     [kind |-> "iterable", items |-> <<>>]}

\* model_forms arguments: none, an empty dict, an override for a model, an
\* entry for a name that is no model, and both.
CustomForm(name) == [generated |-> FALSE, model |-> name]
ModelFormsInputs ==
    {None,
     [x \in {} |-> 0],
     [Student |-> CustomForm("StudentForm")],
     [Teacher |-> CustomForm("TeacherForm")],
     [Student |-> CustomForm("StudentForm"), Teacher |-> CustomForm("TeacherForm")]}

InitDatastore(docs, forms) ==
    /\ model_classes = ModelClasses(docs)
    /\ ds_model_forms = forms
    /\ ds_form_dict = DatastoreFormDict(ModelClasses(docs), forms)
    /\ store = [Student |-> <<>>, Course |-> <<>>]
    /\ call = NoCall
    /\ before = store

\* The datastore over a module of two document classes, no model_forms.
InitStore == InitDatastore(DocModule, None)

InitBlueprints(ms, forms, decorator, per_page) ==
    /\ models = ms
    /\ model_dict = [bp \in DOMAIN ms |-> ModelDict(ms[bp])]
    /\ model_forms = forms
    /\ form_dict = [bp \in DOMAIN ms |-> FormDict(ModelDict(ms[bp]), forms[bp])]
    /\ view_decorator = decorator
    /\ list_view_pagination = per_page
    /\ db = InitDb
    /\ session = [user |-> FALSE]
    /\ req = NoRequest
    /\ resp = Text("")
    /\ fx = NoFx
    /\ prev = InitDb

\* Blueprints created without model_forms.
InitApp(ms, decorator, per_page) ==
    InitBlueprints(ms, [bp \in DOMAIN ms |-> None], decorator, per_page)

\* One admin blueprint over the models module, no view_decorator given.
Init ==
    /\ \E per_page \in PageSizes : InitApp("admin" :> SimpleModule, "dummy", per_page)
    /\ InitStore
    /\ InitNoFormCall

Next == Index \/ ListView \/ Edit \/ Add \/ Delete

Spec == Init /\ [][Next]_vars

\* The same blueprint created with view_decorator=login_required, in an
\* application that also serves /login/ and /logout/.
InitAuth ==
    /\ InitApp("admin" :> SimpleModule, "login_required", DefaultPagination)
    /\ InitStore
    /\ InitNoFormCall

NextAuth == Next \/ Login \/ Logout

SpecAuth == InitAuth /\ [][NextAuth]_vars

\* Two admin blueprints in one application, each created from its own
\* `models` argument, browsed with GET requests and deletes.
InitMulti ==
    /\ \E ms \in [{"admin1", "admin2"} -> {m \in ModelsInputs : Constructs(m)}] :
           InitApp(ms, "dummy", DefaultPagination)
    /\ InitStore
    /\ InitNoFormCall

NextMulti ==
    Index \/ ListView \/ EditRequest({"GET"}) \/ AddRequest({"GET"}) \/ Delete

SpecMulti == InitMulti /\ [][NextMulti]_vars

\* The MongoAlchemy datastore under save and delete calls.
InitMongo ==
    /\ InitApp("admin" :> SimpleModule, "dummy", DefaultPagination)
    /\ InitStore
    /\ InitNoFormCall

\* One blueprint and one datastore, each created from its own `models` and
\* model_forms arguments; the add and edit pages are opened and the datastore
\* is asked for forms.
InitForms ==
    /\ \E m \in {x \in ModelsInputs : Constructs(x)}, forms \in ModelFormsInputs :
           InitBlueprints("admin" :> m, "admin" :> forms, "dummy", DefaultPagination)
    /\ \E docs \in DocInputs, forms \in ModelFormsInputs : InitDatastore(docs, forms)
    /\ InitNoFormCall

NextForms == AddRequest({"GET"}) \/ EditRequest({"GET"}) \/ GetModelForm

SpecForms == InitForms /\ [][NextForms]_vars

\* Form generation for one document class, called any number of times with
\* the same field_args object.
InitConvert ==
    /\ InitApp("admin" :> SimpleModule, "dummy", DefaultPagination)
    /\ InitStore
    /\ ma_model \in DocumentInputs
    /\ field_args \in FieldArgsInputs
    /\ generated = NoGenerated

NextConvert == ModelFields

SpecConvert == InitConvert /\ [][NextConvert]_vars

NextMongo == SaveModel \/ DeleteModelInstance \/ FindModelInstance \/ UpdateFromForm

SpecMongo == InitMongo /\ [][NextMongo]_vars

\* ------------------------------------------------------------- claims
AdminViews == {"index", "list_view", "edit", "add", "delete"}
ModelViews == {"list_view", "edit", "add", "delete"}

\* The last request named a model of its blueprint's registry.
Registered == req.view \in ModelViews /\ req.model_name \in DOMAIN model_dict[req.bp]
\* The table of the model the last request named.
ReqModel == model_dict[req.bp][req.model_name]
ReqTable == ReqModel.cname
OtherTables == DOMAIN db \ {ReqTable}
Count(d, t) == Cardinality(DOMAIN d[t])
RedirectsToList ==
    /\ resp.status = 302
    /\ resp.kind = "redirect"
    /\ resp.location = [endpoint |-> "list_view", model_name |-> req.model_name]

\* C1: a delete request for a registered model and the key of an existing
\* instance removes exactly that instance (the count drops by one, every other
\* instance of every model is kept, a course only losing its link to a deleted
\* student) and redirects to the list view of the same model.
C1_DeleteRemovesExactlyOne ==
    (req.view = "delete" /\ Registered /\ req.model_key \in DOMAIN prev[ReqTable]) =>
        /\ DOMAIN db[ReqTable] = DOMAIN prev[ReqTable] \ {req.model_key}
        /\ Count(db, ReqTable) = Count(prev, ReqTable) - 1
        /\ \A k \in DOMAIN db[ReqTable] : db[ReqTable][k] = prev[ReqTable][k]
        /\ \A t \in OtherTables : DOMAIN db[t] = DOMAIN prev[t]
        /\ ReqTable = "Course" => db.Student = prev.Student
        /\ ReqTable = "Student" =>
              \A c \in DOMAIN db.Course :
                  db.Course[c].students = prev.Course[c].students \ {req.model_key}
        /\ RedirectsToList

\* C1 witness: a student was deleted while another student existed.
C1_Witness ==
    /\ req.view = "delete" /\ Registered /\ ReqTable = "Student"
    /\ req.model_key \in DOMAIN prev.Student
    /\ Count(prev, "Student") = 2
    /\ Count(db, "Student") = 1
    /\ resp.kind = "redirect"

\* C2: a delete request for a registered model and a key that matches no
\* instance is answered 200 with "<model_name> not found", is no redirect and
\* leaves the datastore unchanged, whatever requests came before.
C2_DeleteMissingNotFound ==
    (req.view = "delete" /\ Registered /\ req.model_key \notin DOMAIN prev[ReqTable]) =>
        /\ resp.status = 200
        /\ resp.kind = "text"
        /\ resp.body.msg = "not found"
        /\ resp.body.model_name = req.model_name
        /\ db = prev
        /\ ~fx.committed

\* C2 witness: student 1, present at the start, is deleted a second time.
C2_Witness ==
    /\ req.view = "delete" /\ req.model_name = "Student" /\ req.model_key = 1
    /\ 1 \notin DOMAIN prev.Student
    /\ resp.kind = "text" /\ resp.body.msg = "not found"

\* C3: a POST to the add view of a registered model with valid form data
\* persists exactly one new instance, holding the submitted values (the count
\* grows by one, existing instances are unchanged), and redirects to the list
\* view of that model.
C3_AddPersistsOne ==
    (req.view = "add" /\ req.method = "POST" /\ Registered
        /\ ValidIn(prev, ReqModel, req.form)) =>
        /\ Count(db, ReqTable) = Count(prev, ReqTable) + 1
        /\ DOMAIN prev[ReqTable] \subseteq DOMAIN db[ReqTable]
        /\ \A k \in DOMAIN prev[ReqTable] : db[ReqTable][k] = prev[ReqTable][k]
        /\ \A k \in DOMAIN db[ReqTable] \ DOMAIN prev[ReqTable] :
              \A f \in DOMAIN req.form : db[ReqTable][k][f] = req.form[f]
        /\ \A t \in OtherTables : db[t] = prev[t]
        /\ fx.committed
        /\ RedirectsToList

\* C3 witness: a second student was added next to an existing one.
C3_Witness ==
    /\ req.view = "add" /\ req.method = "POST" /\ Registered
    /\ ReqTable = "Student"
    /\ Count(prev, "Student") = 1 /\ Count(db, "Student") = 2
    /\ resp.kind = "redirect"

\* C4: a POST to the add view, or to the edit view of an existing instance,
\* whose form data fails validation persists nothing (no instance created, the
\* edited instance keeps its values), issues no commit and re-renders the form
\* instead of redirecting.
C4_InvalidPostPersistsNothing ==
    (req.view \in {"add", "edit"} /\ req.method = "POST" /\ Registered
        /\ (req.view = "edit" => req.model_key \in DOMAIN prev[ReqTable])
        /\ ~ValidIn(prev, ReqModel, req.form)) =>
        /\ db = prev
        /\ ~fx.committed
        /\ resp.kind = "template"
        /\ resp.template = (IF req.view = "add" THEN "admin/add.html"
                                                ELSE "admin/edit.html")
        /\ resp.context.form = req.form
        /\ fx.flash = "error"

\* C4 witness: an existing student was edited with an empty name.
C4_Witness ==
    /\ req.view = "edit" /\ req.method = "POST" /\ Registered
    /\ ReqTable = "Student"
    /\ req.model_key \in DOMAIN prev.Student
    /\ req.form.name = ""
    /\ resp.kind = "template"

\* C5: for a model name that is not in the registry, the list, edit, add and
\* delete views (any accepted method, any key) return the plain string
\* "<model_name> cannot be accessed through this admin page" with status 200,
\* and neither query nor modify the datastore.
C5_UnregisteredPlainString ==
    (req.view \in ModelViews /\ req.model_name \notin DOMAIN model_dict[req.bp]) =>
        /\ resp.status = 200
        /\ resp.kind = "text"
        /\ resp.body = [msg |-> "cannot be accessed through this admin page",
                        model_name |-> req.model_name]
        /\ ~fx.queried
        /\ ~fx.committed
        /\ db = prev

\* C5 witness: a POST to the edit view of an unregistered model.
C5_Witness ==
    /\ req.view = "edit" /\ req.method = "POST"
    /\ req.model_name \notin DOMAIN model_dict[req.bp]
    /\ resp.kind = "text"

LoginRedirect ==
    /\ resp.status = 302
    /\ resp.kind = "redirect"
    /\ resp.location.endpoint = "login"

\* C6: with a login-enforcing view decorator installed, a request to any of
\* the five admin routes is served by its view exactly when the session is
\* logged in; otherwise it is answered with a redirect to the login path whose
\* next parameter is the requested URL, and the view (and the datastore) is
\* not touched.
C6_ServedIffLoggedIn ==
    (req.view \in AdminViews) =>
        /\ LoginRedirect <=> ~session.user
        /\ ~session.user =>
              /\ resp.location.next =
                    [bp |-> req.bp, view |-> req.view, model_name |-> req.model_name,
                     model_key |-> req.model_key, args |-> req.args]
              /\ db = prev
              /\ fx = NoFx
        /\ (session.user /\ req.view = "index") => resp.kind = "template"

\* C6 witness: after a login, a delete request was served by the delete view.
C6_Witness ==
    /\ req.view = "delete" /\ session.user
    /\ resp.kind = "redirect" /\ resp.location.endpoint = "list_view"
    /\ db # prev

\* C7: a POST to the edit view of an existing instance with valid form data
\* persists the submitted values on exactly that instance and redirects to the
\* list view; a course edited with students = S afterwards has exactly the
\* students S and every student of S lists the course among its courses; no
\* model gains or loses an instance.
C7_EditPersistsOnInstance ==
    (req.view = "edit" /\ req.method = "POST" /\ Registered
        /\ req.model_key \in DOMAIN prev[ReqTable]
        /\ ValidIn(prev, ReqModel, req.form)) =>
        /\ \A t \in DOMAIN db : DOMAIN db[t] = DOMAIN prev[t]
        /\ \A f \in DOMAIN req.form : db[ReqTable][req.model_key][f] = req.form[f]
        /\ \A k \in DOMAIN db[ReqTable] \ {req.model_key} :
              db[ReqTable][k] = prev[ReqTable][k]
        /\ \A t \in OtherTables : db[t] = prev[t]
        /\ ReqTable = "Course" =>
              /\ db.Course[req.model_key].students = req.form.students
              /\ \A s \in req.form.students :
                    /\ s \in DOMAIN db.Student
                    /\ req.model_key \in StudentCourses(db, s)
              /\ \A s \in DOMAIN db.Student \ req.form.students :
                    req.model_key \notin StudentCourses(db, s)
        /\ fx.committed
        /\ RedirectsToList

\* C7 witness: course 1 was linked to student 1 while another student exists.
C7_Witness ==
    /\ req.view = "edit" /\ req.method = "POST" /\ Registered
    /\ ReqTable = "Course" /\ req.model_key = 1
    /\ req.form.students = {1}
    /\ prev.Course[1].students = {}
    /\ Count(db, "Student") = 2
    /\ StudentCourses(db, 1) = {1}
    /\ resp.kind = "redirect"

\* The 1-based page the last request asked for (1 when absent).
ReqPage == IF "page" \in DOMAIN req.args THEN req.args.page ELSE 1
\* The number of instances the window of page n holds among `total`.
WindowSize(n, P, total) ==
    IF total - (n - 1) * P <= 0 THEN 0
    ELSE IF total - (n - 1) * P >= P THEN P
    ELSE total - (n - 1) * P

\* C8: the list view of a registered model with page size P and page n >= 1
\* returns the instances at positions (n-1)*P .. n*P-1 of the model's query,
\* at most P of them; the pagination descriptor carries n, P and the number of
\* all instances of the model; the datastore is not modified.
C8_ListWindow ==
    (req.view = "list_view" /\ Registered) =>
        LET pagination == resp.context.pagination
            items == pagination.items
            P == list_view_pagination
            total == Count(prev, ReqTable)
        IN  /\ resp.kind = "template"
            /\ pagination.page = ReqPage
            /\ pagination.per_page = P
            /\ pagination.total = total
            /\ resp.context.model_instances = items
            /\ Len(items) <= P
            /\ Len(items) = WindowSize(ReqPage, P, total)
            /\ \A i \in 1..Len(items) :
                  /\ items[i].id \in DOMAIN prev[ReqTable]
                  /\ Cardinality({k \in DOMAIN prev[ReqTable] : k < items[i].id})
                        = (ReqPage - 1) * P + (i - 1)
                  /\ items[i].data = prev[ReqTable][items[i].id]
            /\ db = prev
            /\ ~fx.committed

\* C8 witness: page 2 of two students with page size 1 holds the second one.
C8_Witness ==
    /\ req.view = "list_view" /\ Registered /\ ReqTable = "Student"
    /\ list_view_pagination = 1
    /\ ReqPage = 2
    /\ Count(db, "Student") = 2
    /\ Len(resp.context.pagination.items) = 1
    /\ resp.context.pagination.total = 2

\* What a `models` argument holds, each object under the name it is found by:
\* the attribute name in a module, the class name in an iterable.
FoundIn(m) ==
    IF m.kind = "module"
    THEN {<<k, m.dict[k]>> : k \in DOMAIN m.dict}
    ELSE {<<m.items[i].cname, m.items[i]>> : i \in DOMAIN m.items}
Range(seq) == {seq[i] : i \in DOMAIN seq}

C10_DeleteReturnsWhetherDeleted ==
    (call.name = "delete_model_instance") =>
        LET model_name == call.args.model_name
            model_key == call.args.model_key
            deleted == /\ model_name \in DOMAIN model_classes
                       /\ model_key \in DOMAIN before[model_classes[model_name].cname]
                       /\ model_key \notin DOMAIN store[model_classes[model_name].cname]
        IN  /\ call.result = [raised |-> FALSE, value |-> TRUE] <=> deleted
            /\ ~deleted => call.result = [raised |-> FALSE, value |-> FALSE]

\* C11: find_model_instance returns the instance that matches model_name and
\* model_key if one exists, returns None as a value (raises nothing) if none
\* exists, and never modifies the datastore.
C11_FindReturnsInstanceOrNone ==
    (call.name = "find_model_instance"
        /\ call.args.model_name \in DOMAIN model_classes) =>
        LET model_class == model_classes[call.args.model_name]
            model_key == call.args.model_key
            docs == before[model_class.cname]
        IN  /\ store = before
            /\ ~call.result.raised
            /\ model_key \in DOMAIN docs =>
                  /\ call.result.value.mongo_id = model_key
                  /\ call.result.value.data = docs[model_key]
            /\ model_key \notin DOMAIN docs => call.result.value = [none |-> TRUE]

\* C13: update_from_form never takes the key from the form: the returned
\* instance has the mongo_id it had before the call, also when the form carries
\* a mongo_id field with another value; every other form field's data is
\* assigned to the attribute of the same name, and nothing else changes.
C13_UpdateKeepsKey ==
    (call.name = "update_from_form") =>
        LET instance == call.args.model_instance
            form == call.args.form
            returned == call.result.value
        IN  /\ ~call.result.raised
            /\ returned.mongo_id = instance.mongo_id
            /\ \A f \in DOMAIN form \ {"mongo_id"} :
                  f \in DOMAIN returned /\ returned[f] = form[f]
            /\ \A a \in DOMAIN instance \ DOMAIN form :
                  a \in DOMAIN returned /\ returned[a] = instance[a]
            /\ store = before

\* C13 witness: a form whose mongo_id differs from the instance's was applied
\* and changed the name.
C13_Witness ==
    /\ call.name = "update_from_form"
    /\ "mongo_id" \in DOMAIN call.args.form
    /\ call.args.form.mongo_id # call.args.model_instance.mongo_id
    /\ call.args.form.name # call.args.model_instance.name
    /\ call.result.value.name = call.args.form.name

\* The form a registry entry must map to: the override given for that name,
\* else the form generated for its class.
ExpectedForm(name, cls, forms) ==
    IF forms # [none |-> TRUE] /\ name \in DOMAIN forms
    THEN forms[name]
    ELSE [generated |-> TRUE, model |-> cls.cname]

\* C14: whenever the model registry is not empty, the form registry has exactly
\* the keys of the model registry, each mapped to the model_forms override of
\* that name if there is one and to the generated form otherwise; model_forms
\* entries for other names add no key.  So the form lookup of the add and edit
\* views, made after the model-name check, always finds a form.
C14_FormRegistryMatchesModels ==
    /\ \A bp \in DOMAIN model_dict :
          DOMAIN model_dict[bp] # {} =>
              /\ form_dict[bp] # [unset |-> TRUE]
              /\ DOMAIN form_dict[bp] = DOMAIN model_dict[bp]
              /\ \A k \in DOMAIN model_dict[bp] :
                    form_dict[bp][k] =
                        ExpectedForm(k, model_dict[bp][k], model_forms[bp])
    /\ DOMAIN model_classes # {} =>
          /\ ds_form_dict # [unset |-> TRUE]
          /\ DOMAIN ds_form_dict = DOMAIN model_classes
          /\ \A k \in DOMAIN model_classes :
                ds_form_dict[k] = ExpectedForm(k, model_classes[k], ds_model_forms)
    /\ req.view \in {"add", "edit"} => resp.status # 500
    /\ (call.name = "get_model_form"
            /\ call.args.model_name \in DOMAIN model_classes) =>
          /\ ~call.result.raised
          /\ call.result.value # [none |-> TRUE]

\* C14 witness: model_forms overrides Student and names Teacher, which is no
\* model; the registry holds Student and Course; the add page of Student was
\* served.
C14_Witness ==
    /\ DOMAIN model_dict["admin"] = {"Student", "Course"}
    /\ model_forms["admin"] # None
    /\ DOMAIN model_forms["admin"] = {"Student", "Teacher"}
    /\ form_dict["admin"]["Student"].generated = FALSE
    /\ form_dict["admin"]["Course"].generated = TRUE
    /\ req.view = "add" /\ req.model_name = "Student"
    /\ resp.kind = "template"

\* The validators a generated form field was constructed with.
ValidatorsOf(wtfield) == Range(wtfield.kwargs["validators"])

\* C12: model_fields returns a field for exactly the selected model fields
\* whose type name is a key of the converter table (others are skipped without
\* error); a produced field has an Optional validator iff the model field is
\* not required, and a produced string field has a Length(min, max) validator
\* iff the model field declares a minimum or a maximum length.
C12_FieldsByTypeWithValidators ==
    (generated.called /\ ma_model.document) =>
        /\ ~generated.result.raised
        /\ LET field_dict == generated.result.value
               selected == Selected(ma_model, generated.only, generated.exclude)
           IN  /\ DOMAIN field_dict =
                      {n \in selected :
                          <<ma_model.fields[n].type.name>> \in DOMAIN Converters}
               /\ \A n \in DOMAIN field_dict :
                     LET ma_field == ma_model.fields[n]
                     IN  /\ OptionalV \in ValidatorsOf(field_dict[n])
                                <=> ~ma_field.required
                         /\ ma_field.type.name = "StringField" =>
                                (LengthV(ma_field.min, ma_field.max)
                                     \in ValidatorsOf(field_dict[n])
                                 <=> (ma_field.min # <<>> \/ ma_field.max # <<>>))

\* C15: model_fields leaves the caller's field_args, and the lists in it, as
\* they were, so generating again with the same arguments gives the same
\* fields with the same validators.
C15_FieldArgsUnchanged ==
    generated.called =>
        /\ field_args = generated.field_args
        /\ model_fields(ma_model, generated.only, generated.exclude,
                        field_args).result = generated.result
====
